---- MODULE Spec2Model ----
(***************************************************************************)
(* Model of downloader.py: an interactive loop (main thread) that starts   *)
(* one non-daemon thread per submitted URL; each thread runs               *)
(* download_video, which resolves the video, downloads two streams into a  *)
(* tmp_<uuid> directory, merges them with ffmpeg and moves the result to   *)
(* ./<channel_name>/<file>.mp4.                                            *)
(*                                                                         *)
(* Strings are sequences of one-character strings, so that strip, lower,   *)
(* str.format and the path handling are computed character by character.  *)
(***************************************************************************)
EXTENDS Integers, Sequences, FiniteSets, TLC

(* ------------------------------ bounds --------------------------------- *)
\* threads the loop may start in one run
MaxJobs == 2
\* longest title handed to the sanitizer in an isolated call
MaxTitleLen == 2
\* isolated calls made on the same arguments
MaxCalls == 2
\* stream variants a video may have in an isolated call of the selection
MaxStreams == 3

(* --------------------------- string helpers ---------------------------- *)
SeqsOver(S, lo, hi) == UNION {[1..k -> S] : k \in lo..hi}

\* str.strip(): whitespace removed from both ends, interior kept
IsSpace(c) == c \in {" ", "\t"}

RECURSIVE LStrip(_)
LStrip(s) == IF s = <<>> THEN <<>>
             ELSE IF IsSpace(Head(s)) THEN LStrip(Tail(s)) ELSE s

RECURSIVE RStrip(_)
RStrip(s) == IF s = <<>> THEN <<>>
             ELSE IF IsSpace(s[Len(s)]) THEN RStrip(SubSeq(s, 1, Len(s) - 1)) ELSE s

Strip(s) == RStrip(LStrip(s))

\* str.lower() on the letters the input alphabet has in upper case
LowerChar(c) == CASE c = "E" -> "e" [] c = "X" -> "x" [] c = "I" -> "i"
                  [] c = "T" -> "t" [] c = "Q" -> "q" [] c = "U" -> "u"
                  [] OTHER -> c

\* as Lower, leaving the case as typed
LowerNone(s) == s
\* line 226: video_url.lower()
Lower(s) == [i \in 1..Len(s) |-> LowerChar(s[i])]

(* ------------------------- module-level constants ---------------------- *)
\* "./{channel_name}/{video_title}.mp4"
DOWNLOAD_PATH_TEMPLATE(channel_name, video_title) ==
    <<".", "/">> \o channel_name \o <<"/">> \o video_title \o <<".", "m", "p", "4">>

\* "./{channel_name}/"
CHANNEL_DIRECTORY_TEMPLATE(channel_name) ==
    <<".", "/">> \o channel_name \o <<"/">>

PATH_EXCLUDED_CHARACTERS == {"\\", "/"}

\* the tuple ("exit", "quit", "q") of the interactive loop
EXIT_KEYWORDS == { <<"e", "x", "i", "t">>, <<"q", "u", "i", "t">>, <<"q">> }

(* ------------------------------ sanitizer ------------------------------ *)
\* what iterating filter(lambda c: c not in PATH_EXCLUDED_CHARACTERS, s) yields
FilterExcluded(file_name) ==
    SelectSeq(file_name, LAMBDA c : c \notin PATH_EXCLUDED_CHARACTERS)

\* str() of a filter object is its repr, "<filter object at 0x...>": the
\* object is never iterated.  addr is the hexadecimal heap address.
FilterObjectRepr(addr) ==
    <<"<", "f", "i", "l", "t", "e", "r", " ", "o", "b", "j", "e", "c", "t",
      " ", "a", "t", " ", "0", "x">> \o addr \o <<">">>

\* heap addresses a filter object may get (CPython prints them in hex)
Addrs == { <<"7", "f", "0">>, <<"7", "f", "8">> }

\* as make_path_safe, returning the name unfiltered
make_path_safe_identity(file_name, addr) == file_name
\* lines 29-30: str(filter(...))
make_path_safe(file_name, addr) == FilterObjectRepr(addr)

format_channel_directory(channel_name) == CHANNEL_DIRECTORY_TEMPLATE(channel_name)

format_download_path(channel_name, video_title, addr) ==
    DOWNLOAD_PATH_TEMPLATE(channel_name, make_path_safe(video_title, addr))

(* --------------------------- stream selection -------------------------- *)
\* A Stream: what it carries ("video" only, "audio" only, or "progressive":
\* both), its container, its resolution (144 for "144p") and its audio bit
\* rate (128 for "128kbps"); 0 stands for an attribute the stream lacks.
StreamVariants ==
    [kind : {"video"}, ext : {"mp4", "webm"}, resolution : {144, 360, 720}, abr : {0}]
    \cup [kind : {"audio"}, ext : {"mp4", "webm"}, resolution : {0}, abr : {64, 128}]
    \cup [kind : {"progressive"}, ext : {"mp4"}, resolution : {360}, abr : {128}]

\* Stream.is_adaptive: the stream carries one track only
IsAdaptive(stream) == stream.kind # "progressive"

\* streams.filter(adaptive=True, file_extension="mp4", only_video=True) and
\* the same with only_audio=True
FilterStreams(streams, kind) ==
    SelectSeq(streams, LAMBDA st : IsAdaptive(st) /\ st.ext = "mp4" /\ st.kind = kind)

Attribute(stream, name) == IF name = "resolution" THEN stream.resolution ELSE stream.abr

\* .order_by(name): the streams in ascending order of the attribute, streams
\* of equal value in their original order (sorted() is stable)
RECURSIVE OrderBy(_, _)
OrderBy(streams, name) ==
    IF streams = <<>> THEN <<>>
    ELSE LET n      == Len(streams)
             sorted == OrderBy(SubSeq(streams, 1, n - 1), name)
             k      == Cardinality({i \in 1..Len(sorted) :
                           Attribute(sorted[i], name) <= Attribute(streams[n], name)})
         IN  SubSeq(sorted, 1, k) \o <<streams[n]>> \o SubSeq(sorted, k + 1, Len(sorted))

\* .first() and .last(): <<>> stands for None
FirstOf(streams) == IF streams = <<>> THEN <<>> ELSE <<streams[1]>>
LastOf(streams) == IF streams = <<>> THEN <<>> ELSE <<streams[Len(streams)]>>

\* as select_audio_video_stream, taking .first() of each ordering
select_audio_video_stream_first(streams) ==
    LET video_stream == FirstOf(OrderBy(FilterStreams(streams, "video"), "resolution"))
        audio_stream == FirstOf(OrderBy(FilterStreams(streams, "audio"), "abr"))
    IN  IF video_stream = <<>> \/ audio_stream = <<>> THEN <<>>
        ELSE <<video_stream[1], audio_stream[1]>>

\* lines 56-71: _select_audio_video_stream; <<>> stands for None
select_audio_video_stream(streams) ==
    LET video_stream == LastOf(OrderBy(FilterStreams(streams, "video"), "resolution"))
        audio_stream == LastOf(OrderBy(FilterStreams(streams, "audio"), "abr"))
    IN  IF video_stream = <<>> \/ audio_stream = <<>> THEN <<>>
        ELSE <<video_stream[1], audio_stream[1]>>

(* ------------------------------ file paths ----------------------------- *)
\* A path as the operating system sees it: its components, with empty
\* components and "." dropped ("./a//b/" and "a/b" name the same entry).
RECURSIVE SplitPath(_, _)
SplitPath(path, cur) ==
    LET keep(c) == IF c = <<>> \/ c = <<".">> THEN <<>> ELSE <<c>>
    IN  IF path = <<>> THEN keep(cur)
        ELSE IF Head(path) = "/" THEN keep(cur) \o SplitPath(Tail(path), <<>>)
        ELSE SplitPath(Tail(path), Append(cur, Head(path)))

NormPath(path) == SplitPath(path, <<>>)

\* a directory and all its ancestors, as os.makedirs creates them
Ancestors(comps) == {SubSeq(comps, 1, k) : k \in 0..Len(comps)}

(* ------------------------------ environment ---------------------------- *)
\* lines the user may type at the "YouTube > " prompt
Lines == { <<>>,
           <<" ">>,
           <<"q">>,
           <<" ", "Q", " ">>,
           <<"e", "x", "i", "t">>,
           <<"E", "X", "I", "T">>,
           <<"Q", "u", "i", "t", " ">>,
           <<"e", "x", "i", "t", "s">>,
           <<" ", "e", "x", "i", "t", "s", "\t">> }

\* channel names the resolver may report
Channels == { <<"c">>, <<"A", "C", "/", "D", "C">> }

\* video titles the resolver may report
VideoTitles == { <<"t">>, <<"t", "/", "t">>, <<"\\", "t">> }

\* file names an isolated call of the sanitizer is given
Titles == SeqsOver({"t", "/", "\\"}, 0, MaxTitleLen)

\* video.streams as an isolated call of the selection is given it
StreamLists == SeqsOver(StreamVariants, 0, MaxStreams)

(* -------------------------------- state -------------------------------- *)
VARIABLES
    mpc,          \* main thread: position in the __main__ block
    mexc,         \* main thread: the exception being raised or handled
    ffmpeg_found, \* shutil.which("ffmpeg") finds the executable
    exit_code,    \* argument of exit(), -1 while exit has not been called
    thread_pool,  \* _thread_pool: the started threads appended so far
    join_idx,     \* index of the thread the handler's for loop joins next
    jobs,         \* the threads started, in start order: download_video frames
    tmp,          \* the ./tmp_<uuid>/ directories, by the thread that owns the uuid
    dirs,         \* directories under the working directory -> thread that made it
    files,        \* final files under the working directory -> the thread that
                  \* moved it there and what it moved ("full" or "partial")
    call          \* isolated calls of a path function (specification FnSpec)

vars == <<mpc, mexc, ffmpeg_found, exit_code, thread_pool, join_idx,
          jobs, tmp, dirs, files, call>>

mainVars == <<mpc, mexc, ffmpeg_found, exit_code, thread_pool, join_idx>>
fsVars   == <<tmp, dirs, files>>

NoWorkspace == [exists |-> FALSE, video |-> "none", audio |-> "none", merged |-> "none"]

NoCall == [fn |-> "none", channel_name |-> <<>>, video_title |-> <<>>, streams |-> <<>>,
           results |-> <<>>]

\* a thread created by threading.Thread(target=download_video, args=(video_url,))
NewJob(video_url) ==
    [pc |-> "check", url |-> video_url, channel_name |-> <<>>, final_path |-> <<>>,
     mux_status |-> "not_run", logged |-> <<>>, error |-> "none"]

Terminal(job) == job.pc \in {"done", "failed", "raised"}

Init ==
    /\ mpc = "startup"
    /\ mexc = "none"
    /\ ffmpeg_found \in BOOLEAN
    /\ exit_code = -1
    /\ thread_pool = <<>>
    /\ join_idx = 0
    /\ jobs = <<>>
    /\ tmp = [t \in 1..MaxJobs |-> NoWorkspace]
    /\ dirs = (<<>> :> 0)
    /\ files = <<>>
    /\ call = NoCall

(* ------------------------------ main thread ---------------------------- *)
\* as Startup, without the shutil.which test
StartupNoCheck ==
    /\ mpc = "startup"
    /\ mpc' = "input"
    /\ UNCHANGED <<mexc, ffmpeg_found, exit_code, thread_pool, join_idx,
                   jobs, tmp, dirs, files, call>>

\* lines 217-219: the ffmpeg check made once, before the loop
Startup ==
    /\ mpc = "startup"
    /\ IF ~ffmpeg_found
       THEN /\ mpc' = "exiting"
            /\ exit_code' = 1
       ELSE /\ mpc' = "input"
            /\ exit_code' = exit_code
    /\ UNCHANGED <<mexc, ffmpeg_found, thread_pool, join_idx,
                   jobs, tmp, dirs, files, call>>

\* lines 223-229 and 151-154: one pass of the loop on the line read, up to
\* and including schedule_thread.start()
ReadLine(line) ==
    LET video_url == Strip(line) IN
    /\ mpc = "input"
    /\ IF video_url = <<>>
       THEN UNCHANGED <<mpc, mexc, jobs>>
       ELSE IF Lower(video_url) \in EXIT_KEYWORDS
       THEN /\ mexc' = "KeyboardInterrupt"
            /\ mpc' = "handler"
            /\ jobs' = jobs
       ELSE /\ Len(jobs) < MaxJobs
            /\ jobs' = Append(jobs, NewJob(video_url))
            /\ mpc' = "append"
            /\ mexc' = mexc
    /\ UNCHANGED <<ffmpeg_found, exit_code, thread_pool, join_idx, tmp, dirs, files, call>>

\* as AppendThread, with _thread_pool.insert(0, schedule_thread)
AppendThreadAtFront ==
    /\ mpc = "append"
    /\ thread_pool' = <<Len(jobs)>> \o thread_pool
    /\ mpc' = "input"
    /\ UNCHANGED <<mexc, ffmpeg_found, exit_code, join_idx, jobs, tmp, dirs,
                   files, call>>

\* line 155: _thread_pool.append(schedule_thread)
AppendThread ==
    /\ mpc = "append"
    /\ thread_pool' = Append(thread_pool, Len(jobs))
    /\ mpc' = "input"
    /\ UNCHANGED <<mexc, ffmpeg_found, exit_code, join_idx, jobs, tmp, dirs,
                   files, call>>

\* Ctrl-C: KeyboardInterrupt raised in the main thread between two bytecodes
\* of the try block (lines 222-229, schedule_download included)
Interrupt ==
    /\ mpc \in {"input", "append"}
    /\ mexc' = "KeyboardInterrupt"
    /\ mpc' = "handler"
    /\ UNCHANGED <<ffmpeg_found, exit_code, thread_pool, join_idx, jobs, tmp,
                   dirs, files, call>>

\* line 223: console.input at end of input raises EOFError, which no handler
\* catches: the main thread ends with a traceback, exit status 1
InputEOF ==
    /\ mpc = "input"
    /\ mexc' = "EOFError"
    /\ mpc' = "exiting"
    /\ exit_code' = 1
    /\ UNCHANGED <<ffmpeg_found, thread_pool, join_idx, jobs, tmp, dirs,
                   files, call>>

\* lines 230-232: except KeyboardInterrupt, entering the for loop
HandlerEnter ==
    /\ mpc = "handler"
    /\ mpc' = "join"
    /\ join_idx' = 1
    /\ UNCHANGED <<mexc, ffmpeg_found, exit_code, thread_pool, jobs, tmp, dirs,
                   files, call>>

\* lines 233-234: thread.join() returns once that thread has ended
JoinThread ==
    /\ mpc = "join"
    /\ join_idx <= Len(thread_pool)
    /\ Terminal(jobs[thread_pool[join_idx]])
    /\ join_idx' = join_idx + 1
    /\ UNCHANGED <<mpc, mexc, ffmpeg_found, exit_code, thread_pool, jobs, tmp,
                   dirs, files, call>>

\* lines 236-237: the loop is over; exit message and exit(0)
ExitGraceful ==
    /\ mpc = "join"
    /\ join_idx > Len(thread_pool)
    /\ mpc' = "exiting"
    /\ exit_code' = 0
    /\ UNCHANGED <<mexc, ffmpeg_found, thread_pool, join_idx, jobs, tmp, dirs,
                   files, call>>

\* as ProcessEnd, with daemon threads: the process ends with the main thread
ProcessEndDaemon ==
    /\ mpc = "exiting"
    /\ mpc' = "terminated"
    /\ UNCHANGED <<mexc, ffmpeg_found, exit_code, thread_pool, join_idx, jobs,
                   tmp, dirs, files, call>>

\* line 152, daemon=False: after the main thread has ended the interpreter
\* waits for every non-daemon thread before the process terminates
ProcessEnd ==
    /\ mpc = "exiting"
    /\ \A j \in 1..Len(jobs) : Terminal(jobs[j])
    /\ mpc' = "terminated"
    /\ UNCHANGED <<mexc, ffmpeg_found, exit_code, thread_pool, join_idx, jobs,
                   tmp, dirs, files, call>>

(* --------------------- download_video, one thread ---------------------- *)
SetJob(j, job) == jobs' = [jobs EXCEPT ![j] = job]

Log(job, entry) == [job EXCEPT !.logged = Append(@, entry)]

\* an exception leaves download_video: the thread ends, nothing is logged
\* through console
Raise(job, kind) == [job EXCEPT !.pc = "raised", !.error = kind]

\* lines 113-119: YouTube(video_url) and video.check_availability()
CheckAvailability(j) ==
    /\ jobs[j].pc = "check"
    /\ \E outcome \in {"ctor_raises", "unavailable", "available"} :
         SetJob(j, CASE outcome = "ctor_raises" -> Raise(jobs[j], "ResolverError")
                     [] outcome = "unavailable" ->
                          [Log(jobs[j], "unavailable") EXCEPT !.pc = "failed",
                                                              !.error = "Unavailable"]
                     [] outcome = "available" -> [jobs[j] EXCEPT !.pc = "select"])
    /\ UNCHANGED <<mainVars, fsVars, call>>

\* as SelectStreams, with the temporary directory made before the selection
SelectStreamsWorkspaceFirst(j) ==
    /\ jobs[j].pc = "select"
    /\ tmp' = [tmp EXCEPT ![j] = [@ EXCEPT !.exists = TRUE]]
    /\ \E outcome \in {"streams_raises", "none", "pair"} :
         SetJob(j, CASE outcome = "streams_raises" -> Raise(jobs[j], "ResolverError")
                     [] outcome = "none" ->
                          [Log(jobs[j], "no_stream") EXCEPT !.pc = "failed",
                                                            !.error = "NoSuitableStream"]
                     [] outcome = "pair" -> [jobs[j] EXCEPT !.pc = "channel"])
    /\ UNCHANGED <<mainVars, dirs, files, call>>

\* lines 121-126: video.streams and _select_audio_video_stream
SelectStreams(j) ==
    /\ jobs[j].pc = "select"
    /\ \E outcome \in {"streams_raises", "none", "pair"} :
         SetJob(j, CASE outcome = "streams_raises" -> Raise(jobs[j], "ResolverError")
                     [] outcome = "none" ->
                          [Log(jobs[j], "no_stream") EXCEPT !.pc = "failed",
                                                            !.error = "NoSuitableStream"]
                     [] outcome = "pair" -> [jobs[j] EXCEPT !.pc = "channel"])
    /\ UNCHANGED <<mainVars, fsVars, call>>

\* lines 128-131: Channel(video.channel_url).channel_name and the log entry
ResolveChannel(j) ==
    /\ jobs[j].pc = "channel"
    /\ \/ SetJob(j, Raise(jobs[j], "ResolverError"))
       \/ \E name \in Channels :
            SetJob(j, [Log(jobs[j], "downloading") EXCEPT !.pc = "dl_video",
                                                          !.channel_name = name])
    /\ UNCHANGED <<mainVars, fsVars, call>>

\* lines 75-78: uuid4, then video_stream.download creates ./tmp_<uuid>/ and
\* writes video.mp4 into it
DownloadVideo(j) ==
    /\ jobs[j].pc = "dl_video"
    /\ \/ /\ tmp' = [tmp EXCEPT ![j] = [@ EXCEPT !.exists = TRUE, !.video = "full"]]
          /\ SetJob(j, [jobs[j] EXCEPT !.pc = "dl_audio"])
       \/ \E left \in {"none", "partial"} :
          /\ tmp' = [tmp EXCEPT ![j] = [@ EXCEPT !.exists = TRUE, !.video = left]]
          /\ SetJob(j, Raise(jobs[j], "TransferFailure"))
    /\ UNCHANGED <<mainVars, dirs, files, call>>

\* as DownloadAudio, with a failed transfer swallowed
DownloadAudioUnchecked(j) ==
    /\ jobs[j].pc = "dl_audio"
    /\ \E got \in {"none", "partial", "full"} :
          /\ tmp' = [tmp EXCEPT ![j] = [@ EXCEPT !.audio = got]]
          /\ SetJob(j, [jobs[j] EXCEPT !.pc = "merge"])
    /\ UNCHANGED <<mainVars, dirs, files, call>>

\* line 79: audio_stream.download writes audio.mp4
DownloadAudio(j) ==
    /\ jobs[j].pc = "dl_audio"
    /\ \/ /\ tmp' = [tmp EXCEPT ![j] = [@ EXCEPT !.audio = "full"]]
          /\ SetJob(j, [jobs[j] EXCEPT !.pc = "merge"])
       \/ \E left \in {"none", "partial"} :
          /\ tmp' = [tmp EXCEPT ![j] = [@ EXCEPT !.audio = left]]
          /\ SetJob(j, Raise(jobs[j], "TransferFailure"))
    /\ UNCHANGED <<mainVars, dirs, files, call>>

\* as MergeStreams, with subprocess.run(cmd) not checking the exit status
MergeStreamsUnchecked(j) ==
    /\ jobs[j].pc = "merge"
    /\ \/ /\ tmp' = [tmp EXCEPT ![j] = [@ EXCEPT !.merged = "full"]]
          /\ SetJob(j, [jobs[j] EXCEPT !.pc = "ensure", !.mux_status = "zero"])
       \/ \E left \in {"none", "partial"} :
          /\ tmp' = [tmp EXCEPT ![j] = [@ EXCEPT !.merged = left]]
          /\ SetJob(j, [jobs[j] EXCEPT !.pc = "ensure", !.mux_status = "nonzero"])
    /\ UNCHANGED <<mainVars, dirs, files, call>>

\* as MergeStreams, with a failed merge ending the process (exit(1) in the thread's
\* error path)
MergeStreamsFatal(j) ==
    /\ jobs[j].pc = "merge"
    /\ \/ /\ tmp' = [tmp EXCEPT ![j] = [@ EXCEPT !.merged = "full"]]
          /\ SetJob(j, [jobs[j] EXCEPT !.pc = "ensure", !.mux_status = "zero"])
          /\ UNCHANGED mainVars
       \/ \E left \in {"none", "partial"} :
          /\ tmp' = [tmp EXCEPT ![j] = [@ EXCEPT !.merged = left]]
          /\ SetJob(j, [Raise(jobs[j], "MergeFailure") EXCEPT !.mux_status = "nonzero"])
          /\ mpc' = "terminated"
          /\ exit_code' = 1
          /\ UNCHANGED <<mexc, ffmpeg_found, thread_pool, join_idx>>
    /\ UNCHANGED <<dirs, files, call>>

\* line 135, lines 84-105: subprocess.run(cmd, check=True) writes merged.mp4;
\* a non-zero exit status raises CalledProcessError
MergeStreams(j) ==
    /\ jobs[j].pc = "merge"
    /\ \/ /\ tmp' = [tmp EXCEPT ![j] = [@ EXCEPT !.merged = "full"]]
          /\ SetJob(j, [jobs[j] EXCEPT !.pc = "ensure", !.mux_status = "zero"])
       \/ \E left \in {"none", "partial"} :
          /\ tmp' = [tmp EXCEPT ![j] = [@ EXCEPT !.merged = left]]
          /\ SetJob(j, [Raise(jobs[j], "MergeFailure") EXCEPT !.mux_status = "nonzero"])
    /\ UNCHANGED <<mainVars, dirs, files, call>>

\* lines 136-140, 49-52: the final path is formatted, then
\* ensure_channel_directory tests os.path.exists
EnsureExists(j) ==
    /\ jobs[j].pc = "ensure"
    /\ \E title \in VideoTitles, addr \in Addrs :
         LET final_path == format_download_path(jobs[j].channel_name, title, addr)
             channel_directory == format_channel_directory(jobs[j].channel_name)
         IN  SetJob(j, [jobs[j] EXCEPT
                          !.final_path = final_path,
                          !.pc = IF NormPath(channel_directory) \in DOMAIN dirs
                                 THEN "move" ELSE "makedirs"])
    /\ UNCHANGED <<mainVars, fsVars, call>>

\* as MakeDirs, without exist_ok=True: FileExistsError when the directory
\* has been made since the test
MakeDirsNoExistOk(j) ==
    /\ jobs[j].pc = "makedirs"
    /\ LET target == NormPath(format_channel_directory(jobs[j].channel_name))
           made   == Ancestors(target)
       IN  IF target \in DOMAIN dirs
           THEN /\ SetJob(j, Raise(jobs[j], "RelocationFailure"))
                /\ dirs' = dirs
           ELSE /\ dirs' = [d \in DOMAIN dirs \cup made |->
                              IF d \in DOMAIN dirs THEN dirs[d] ELSE j]
                /\ SetJob(j, [jobs[j] EXCEPT !.pc = "move"])
    /\ UNCHANGED <<mainVars, tmp, files, call>>

\* line 53: os.makedirs(channel_directory, exist_ok=True)
MakeDirs(j) ==
    /\ jobs[j].pc = "makedirs"
    /\ LET made == Ancestors(NormPath(format_channel_directory(jobs[j].channel_name)))
       IN  dirs' = [d \in DOMAIN dirs \cup made |->
                      IF d \in DOMAIN dirs THEN dirs[d] ELSE j]
    /\ SetJob(j, [jobs[j] EXCEPT !.pc = "move"])
    /\ UNCHANGED <<mainVars, tmp, files, call>>

\* as MoveOutput, with a move that refuses to replace an existing file
MoveOutputNoReplace(j) ==
    /\ jobs[j].pc = "move"
    /\ \/ /\ NormPath(jobs[j].final_path) \notin DOMAIN files
          /\ tmp' = [tmp EXCEPT ![j] = [@ EXCEPT !.merged = "none"]]
          /\ LET dest == NormPath(jobs[j].final_path)
             IN  files' = [f \in DOMAIN files \cup {dest} |->
                             IF f = dest THEN [by |-> j, content |-> tmp[j].merged]
                                         ELSE files[f]]
          /\ SetJob(j, [jobs[j] EXCEPT !.pc = "cleanup"])
       \/ /\ SetJob(j, Raise(jobs[j], "RelocationFailure"))
          /\ UNCHANGED <<tmp, files>>
    /\ UNCHANGED <<mainVars, dirs, call>>

\* line 141: shutil.move(output_file, final_path), a rename that replaces
\* the file at final_path (os.rename on one file system); it raises when the
\* destination cannot be written
MoveOutput(j) ==
    /\ jobs[j].pc = "move"
    /\ \/ /\ tmp' = [tmp EXCEPT ![j] = [@ EXCEPT !.merged = "none"]]
          /\ LET dest == NormPath(jobs[j].final_path)
             IN  files' = [f \in DOMAIN files \cup {dest} |->
                             IF f = dest THEN [by |-> j, content |-> tmp[j].merged]
                                         ELSE files[f]]
          /\ SetJob(j, [jobs[j] EXCEPT !.pc = "cleanup"])
       \/ /\ SetJob(j, Raise(jobs[j], "RelocationFailure"))
          /\ UNCHANGED <<tmp, files>>
    /\ UNCHANGED <<mainVars, dirs, call>>

\* as CleanupTempFiles, with the rmtree call left out
CleanupTempFilesSkipped(j) ==
    /\ jobs[j].pc = "cleanup"
    /\ SetJob(j, [jobs[j] EXCEPT !.pc = "log_ok"])
    /\ UNCHANGED <<mainVars, tmp, dirs, files, call>>

\* line 143: shutil.rmtree(download_path, ignore_errors=True)
CleanupTempFiles(j) ==
    /\ jobs[j].pc = "cleanup"
    /\ tmp' = [tmp EXCEPT ![j] = NoWorkspace]
    /\ SetJob(j, [jobs[j] EXCEPT !.pc = "log_ok"])
    /\ UNCHANGED <<mainVars, dirs, files, call>>

\* lines 145-147: the success entry, then the function returns
LogSuccess(j) ==
    /\ jobs[j].pc = "log_ok"
    /\ SetJob(j, [Log(jobs[j], "success") EXCEPT !.pc = "done"])
    /\ UNCHANGED <<mainVars, fsVars, call>>

(* ---------------------------- specification ---------------------------- *)
Next ==
    \/ Startup
    \/ \E line \in Lines : ReadLine(line)
    \/ AppendThread
    \/ Interrupt
    \/ InputEOF
    \/ HandlerEnter
    \/ JoinThread
    \/ ExitGraceful
    \/ ProcessEnd
    \/ \E j \in 1..Len(jobs) : CheckAvailability(j)
    \/ \E j \in 1..Len(jobs) : SelectStreams(j)
    \/ \E j \in 1..Len(jobs) : ResolveChannel(j)
    \/ \E j \in 1..Len(jobs) : DownloadVideo(j)
    \/ \E j \in 1..Len(jobs) : DownloadAudio(j)
    \/ \E j \in 1..Len(jobs) : MergeStreams(j)
    \/ \E j \in 1..Len(jobs) : EnsureExists(j)
    \/ \E j \in 1..Len(jobs) : MakeDirs(j)
    \/ \E j \in 1..Len(jobs) : MoveOutput(j)
    \/ \E j \in 1..Len(jobs) : CleanupTempFiles(j)
    \/ \E j \in 1..Len(jobs) : LogSuccess(j)

Spec == Init /\ [][Next]_vars

\* one step of thread j
JobStep(j) ==
    \/ CheckAvailability(j) \/ SelectStreams(j) \/ ResolveChannel(j)
    \/ DownloadVideo(j) \/ DownloadAudio(j) \/ MergeStreams(j)
    \/ EnsureExists(j) \/ MakeDirs(j) \/ MoveOutput(j)
    \/ CleanupTempFiles(j) \/ LogSuccess(j)

(* ------------------- the path functions, called alone ------------------ *)
\* the function and its arguments are fixed at the start; each call appends
\* its return value
FnInit ==
    /\ mpc = "startup"
    /\ mexc = "none"
    /\ ffmpeg_found = TRUE
    /\ exit_code = -1
    /\ thread_pool = <<>>
    /\ join_idx = 0
    /\ jobs = <<>>
    /\ tmp = [t \in 1..MaxJobs |-> NoWorkspace]
    /\ dirs = (<<>> :> 0)
    /\ files = <<>>
    /\ \/ \E fn \in {"make_path_safe", "format_download_path"},
               c \in Channels, t \in Titles :
            call = [NoCall EXCEPT !.fn = fn, !.channel_name = c, !.video_title = t]
       \/ \E streams \in StreamLists :
            call = [NoCall EXCEPT !.fn = "select_audio_video_stream",
                                  !.streams = streams]

\* lines 29-30: _make_path_safe(video_title)
CallMakePathSafe ==
    /\ call.fn = "make_path_safe"
    /\ Len(call.results) < MaxCalls
    /\ \E addr \in Addrs :
         call' = [call EXCEPT !.results = Append(@, make_path_safe(call.video_title, addr))]
    /\ UNCHANGED <<mainVars, jobs, fsVars>>

\* lines 37-42: _format_download_path(channel_name, video_title)
CallFormatDownloadPath ==
    /\ call.fn = "format_download_path"
    /\ Len(call.results) < MaxCalls
    /\ \E addr \in Addrs :
         call' = [call EXCEPT !.results = Append(@, format_download_path(
                                              call.channel_name, call.video_title, addr))]
    /\ UNCHANGED <<mainVars, jobs, fsVars>>

\* lines 56-71: _select_audio_video_stream(video.streams)
CallSelectStreams ==
    /\ call.fn = "select_audio_video_stream"
    /\ Len(call.results) < MaxCalls
    /\ call' = [call EXCEPT
                  !.results = Append(@, select_audio_video_stream(call.streams))]
    /\ UNCHANGED <<mainVars, jobs, fsVars>>

FnNext == CallMakePathSafe \/ CallFormatDownloadPath \/ CallSelectStreams

FnSpec == FnInit /\ [][FnNext]_vars

(* ================================ claims =============================== *)
JobIds == 1..Len(jobs)

Failed(job) == job.pc \in {"failed", "raised"}

LoggedFailure(job) ==
    \E i \in 1..Len(job.logged) : job.logged[i] \in {"unavailable", "no_stream"}

\* C1: once download_video has returned or its thread has ended, however the
\* job ended, the job's tmp_<uuid> directory does not exist.
C1_WorkspaceGoneAtEnd ==
    \A j \in JobIds : Terminal(jobs[j]) => ~tmp[j].exists

\* C2: the handler reaches exit(0) only when no started thread is still
\* running, and every thread in _thread_pool has then ended.
C2_ShutdownWaitsForAll ==
    exit_code = 0 =>
        /\ \A j \in JobIds : Terminal(jobs[j])
        /\ \A i \in 1..Len(thread_pool) : Terminal(jobs[thread_pool[i]])

\* C3: a job whose ffmpeg run exits non-zero ends failed, and that job has
\* created no directory under the working directory and has put no file at
\* a final path.
C3_MergeFailureLeavesOutputAlone ==
    \A j \in JobIds :
        jobs[j].mux_status = "nonzero" =>
            /\ jobs[j].pc = "raised"
            /\ jobs[j].error = "MergeFailure"
            /\ jobs[j].final_path = <<>>
            /\ \A d \in DOMAIN dirs : dirs[d] # j
            /\ \A f \in DOMAIN files : files[f].by # j

\* a job downloaded both streams and its ffmpeg run exited non-zero, while
\* the other job has made its channel directory
C3_Witness ==
    \E j \in JobIds :
        /\ jobs[j].mux_status = "nonzero"
        /\ tmp[j].video = "full" /\ tmp[j].audio = "full"
        /\ \E d \in DOMAIN dirs : dirs[d] \notin {0, j}

\* C4: a tmp_<uuid> directory exists only for a job that has passed the
\* availability check and the stream selection (it has logged "Downloading");
\* a job that failed as unavailable or without a suitable stream has none.
C4_WorkspaceOnlyAfterSelection ==
    /\ \A t \in 1..MaxJobs :
          tmp[t].exists =>
              /\ t \in JobIds
              /\ jobs[t].pc \notin {"check", "select", "channel", "failed"}
              /\ jobs[t].error \notin {"Unavailable", "NoSuitableStream", "ResolverError"}
              /\ jobs[t].channel_name # <<>>
    /\ \A j \in JobIds :
          jobs[j].error \in {"Unavailable", "NoSuitableStream"} => tmp[j] = NoWorkspace

\* one job has failed without a suitable stream and has no directory, while
\* the other has its directory
C4_Witness ==
    \E j, k \in JobIds :
        /\ jobs[j].error = "NoSuitableStream" /\ ~tmp[j].exists
        /\ jobs[k].pc = "dl_audio" /\ tmp[k].exists

\* C5: the step in which a job fails changes nothing but that job and its
\* own temporary directory: every other job, the main thread (its position,
\* exit status and _thread_pool) and the final directories and files are as
\* before.
C5_FailureIsLocal ==
    [][\A j \in JobIds :
          (~Failed(jobs[j]) /\ Failed(jobs'[j])) =>
              /\ Len(jobs') = Len(jobs)
              /\ \A k \in JobIds : k # j => jobs'[k] = jobs[k] /\ tmp'[k] = tmp[k]
              /\ UNCHANGED <<mainVars, dirs, files>>]_vars

\* after the first job failed in its merge, the loop took a second
\* submission, which has completed, and the loop is at its prompt again
C5_Witness ==
    /\ Len(jobs) = 2
    /\ jobs[1].error = "MergeFailure"
    /\ jobs[2].pc = "done"
    /\ mpc = "input"
    /\ exit_code = -1

\* C6: no error leaves download_video unhandled: a job that failed has
\* returned after writing a failure entry to the console log.
C6_FailuresHandledAndLogged ==
    \A j \in JobIds :
        /\ jobs[j].pc # "raised"
        /\ jobs[j].error # "none" => LoggedFailure(jobs[j])

\* C7: whatever the title, the value _make_path_safe returns contains
\* neither a backslash nor a slash.
C7_SanitizedHasNoSeparator ==
    call.fn = "make_path_safe" =>
        \A n \in 1..Len(call.results) :
            \A i \in 1..Len(call.results[n]) :
                call.results[n][i] \notin {"\\", "/"}

\* the sanitizer has returned for a title that holds both separators
C7_Witness ==
    /\ call.fn = "make_path_safe"
    /\ Len(call.results) >= 1
    /\ \E i, k \in 1..Len(call.video_title) :
          call.video_title[i] = "/" /\ call.video_title[k] = "\\"

\* C8: the final path of a job that succeeded is ./<channel>/<title>.mp4 with
\* no path separator inside the channel component or the title component.
WellFormedFinalPath(path) ==
    LET n == Len(path) IN
    /\ n >= 7
    /\ SubSeq(path, 1, 2) = <<".", "/">>
    /\ SubSeq(path, n - 3, n) = <<".", "m", "p", "4">>
    /\ \E k \in 4..(n - 5) :
          /\ path[k] = "/"
          /\ \A i \in (3..(n - 4)) \ {k} : path[i] \notin PATH_EXCLUDED_CHARACTERS

C8_FinalPathComponentsSafe ==
    \A j \in JobIds : jobs[j].pc = "done" => WellFormedFinalPath(jobs[j].final_path)

\* C9: without ffmpeg the main thread goes from startup to exit(1) and never
\* to the prompt: no thread is started; with ffmpeg, a run that ends through
\* the KeyboardInterrupt handler ends with exit(0).
C9_ExitCodes ==
    /\ ~ffmpeg_found =>
          /\ mpc \in {"startup", "exiting", "terminated"}
          /\ jobs = <<>> /\ thread_pool = <<>>
          /\ mpc # "startup" => exit_code = 1
    /\ (mexc = "KeyboardInterrupt" /\ mpc \in {"exiting", "terminated"}) =>
          ffmpeg_found /\ exit_code = 0
    /\ exit_code = 0 => ffmpeg_found /\ mexc = "KeyboardInterrupt"

\* ffmpeg is missing and the process has ended with status 1
C9_Witness ==
    ~ffmpeg_found /\ mpc = "terminated" /\ exit_code = 1

\* C10: a pass of the loop on a line that is blank after trimming starts no
\* thread and returns to the prompt; on a line that is an exit keyword in any
\* letter case it starts no thread and enters the handler; on any other line
\* it starts exactly one thread, whose argument is the trimmed line.
Blank(line) == \A i \in 1..Len(line) : IsSpace(line[i])

Trimmed(line) ==
    LET inked == {i \in 1..Len(line) : ~IsSpace(line[i])}
        first == CHOOSE i \in inked : \A k \in inked : i <= k
        last  == CHOOSE i \in inked : \A k \in inked : i >= k
    IN  IF inked = {} THEN <<>> ELSE SubSeq(line, first, last)

IsExitWord(line) ==
    \E word \in EXIT_KEYWORDS :
        /\ Len(word) = Len(Trimmed(line))
        /\ \A i \in 1..Len(word) : LowerChar(Trimmed(line)[i]) = word[i]

C10_LoopDispatch ==
    [][\A line \in Lines :
          ReadLine(line) =>
              IF Blank(line)
              THEN jobs' = jobs /\ mpc' = "input" /\ mexc' = mexc
              ELSE IF IsExitWord(line)
              THEN jobs' = jobs /\ mpc' = "handler" /\ mexc' = "KeyboardInterrupt"
              ELSE /\ jobs' = Append(jobs, NewJob(Trimmed(line)))
                   /\ mpc' = "append"
                   /\ mexc' = mexc]_vars

\* two threads were started for the submitted line and the loop has then
\* left through the handler
C10_Witness ==
    /\ Len(jobs) = 2
    /\ \A j \in JobIds : jobs[j].url = <<"e", "x", "i", "t", "s">>
    /\ Len(thread_pool) = 2
    /\ mpc = "handler"

\* C11: the selection returns the adaptive video-only mp4 stream of greatest
\* resolution together with the adaptive audio-only mp4 stream of greatest
\* bit rate, each taken over its own candidates; it returns None exactly
\* when one of the two candidate sets is empty.
Candidates(streams, kind) ==
    {streams[i] : i \in {n \in 1..Len(streams) :
        /\ streams[n].kind = kind
        /\ streams[n].ext = "mp4"}}

C11_SelectsBestOfEach ==
    call.fn = "select_audio_video_stream" =>
        \A n \in 1..Len(call.results) :
            LET videos   == Candidates(call.streams, "video")
                audios   == Candidates(call.streams, "audio")
                selected == call.results[n]
            IN  /\ selected = <<>> <=> (videos = {} \/ audios = {})
                /\ selected # <<>> =>
                      /\ selected[1] \in videos
                      /\ \A v \in videos : v.resolution <= selected[1].resolution
                      /\ selected[2] \in audios
                      /\ \A a \in audios : a.abr <= selected[2].abr

\* the selection returned 720p although a lower mp4 resolution comes after it
\* in video.streams
C11_Witness ==
    /\ call.fn = "select_audio_video_stream"
    /\ Len(call.results) >= 1
    /\ call.results[1] # <<>>
    /\ call.results[1][1].resolution = 720
    /\ \E i, k \in 1..Len(call.streams) :
          /\ i < k
          /\ call.streams[i].kind = "video" /\ call.streams[i].resolution = 720
          /\ call.streams[k].kind = "video" /\ call.streams[k].resolution = 144
          /\ call.streams[k].ext = "mp4"

\* C12: once the loop has been left on an exit request (exit keyword or
\* Ctrl-C) no thread is started any more and the main thread changes no
\* thread's frame or files (none is aborted), and the process ends only
\* when every started thread has ended.
ExitRequested == mexc = "KeyboardInterrupt"

AllJobsEnded == \A j \in JobIds : Terminal(jobs[j])

C12_DrainOnExit ==
    /\ [](ExitRequested /\ mpc = "terminated" => AllJobsEnded)
    /\ [][ExitRequested =>
            /\ Len(jobs') = Len(jobs)
            /\ \A j \in JobIds : Terminal(jobs[j]) => jobs'[j] = jobs[j]
            /\ mainVars' # mainVars => jobs' = jobs /\ fsVars' = fsVars]_vars

\* the handler is waiting in join() for a registered thread that is in the
\* middle of its merge
C12_Witness ==
    /\ ExitRequested
    /\ mpc = "join"
    /\ join_idx = 1
    /\ Len(thread_pool) = 2
    /\ jobs[thread_pool[1]].pc = "merge"

\* C13: whatever another job does to the channel directory between a job's
\* os.path.exists test and its os.makedirs call, the makedirs call does not
\* raise, and the channel directory exists for every job that has left
\* ensure_channel_directory.
ChannelDir(job) == NormPath(format_channel_directory(job.channel_name))

PastEnsure(job) ==
    \/ job.pc \in {"move", "cleanup", "log_ok", "done"}
    \/ job.error = "RelocationFailure"

C13_EnsureDirectoryRaceSafe ==
    /\ [](\A j \in JobIds : PastEnsure(jobs[j]) => ChannelDir(jobs[j]) \in DOMAIN dirs)
    /\ [][\A j \in JobIds :
            (jobs[j].pc = "makedirs" /\ jobs'[j] # jobs[j]) =>
                /\ jobs'[j].pc = "move"
                /\ ChannelDir(jobs[j]) \in DOMAIN dirs']_vars

\* two jobs of one channel both found the directory missing; one has made
\* it, the other is still before its makedirs call
C13_Witness ==
    \E j, k \in JobIds :
        /\ j # k
        /\ jobs[j].channel_name = jobs[k].channel_name
        /\ jobs[j].pc = "makedirs"
        /\ jobs[k].pc \in {"move", "cleanup", "log_ok", "done"}
        /\ dirs[ChannelDir(jobs[k])] = k

\* C14: a move that succeeds puts the job's own complete merged file at its
\* final path, replacing what another job put there (the last move wins);
\* every file at a final path is the complete merged file of one job that
\* has moved it there; and a job about to move to a path where the other job
\* has already put its file can succeed.
FinalFile(job) == NormPath(job.final_path)

MoveSucceeds(j) == MoveOutput(j) /\ jobs'[j].pc = "cleanup"

C16_PathFromFilteredTitle ==
    call.fn = "format_download_path" =>
        \A n \in 1..Len(call.results) :
            call.results[n] =
                <<".", "/">> \o call.channel_name \o <<"/">>
                    \o FilterExcluded(call.video_title) \o <<".", "m", "p", "4">>

\* C17: when the handler starts its join loop, every started thread is in
\* _thread_pool.
C17_EveryStartedThreadJoined ==
    mpc = "join" => \A j \in JobIds : \E i \in 1..Len(thread_pool) : thread_pool[i] = j

\* C18: a job makes a directory or puts a file at a final path only after
\* its own ffmpeg run has exited with status zero, what it puts there is the
\* complete merged file, and ffmpeg is run only when video.mp4 and audio.mp4
\* are both completely downloaded.
C18_OutputOnlyAfterMerge ==
    /\ [](\A j \in JobIds :
            /\ (\E d \in DOMAIN dirs : dirs[d] = j) => jobs[j].mux_status = "zero"
            /\ (\E f \in DOMAIN files : files[f].by = j) =>
                  jobs[j].mux_status = "zero"
            /\ jobs[j].pc \in {"ensure", "makedirs", "move", "cleanup", "log_ok", "done"}
                  => jobs[j].mux_status = "zero"
            /\ \A f \in DOMAIN files : files[f].content = "full")
    /\ [][\A j \in JobIds :
            /\ (jobs[j].mux_status = "not_run" /\ jobs'[j].mux_status # "not_run") =>
                  tmp[j].video = "full" /\ tmp[j].audio = "full"
            /\ (dirs' # dirs \/ files' # files) /\ jobs'[j] # jobs[j] =>
                  jobs[j].mux_status = "zero" /\ tmp[j].merged = "full"]_vars

\* a job has moved its file into a directory it made, after a merge of two
\* complete downloads
C18_Witness ==
    \E j \in JobIds :
        /\ jobs[j].pc = "cleanup"
        /\ jobs[j].mux_status = "zero"
        /\ tmp[j].video = "full" /\ tmp[j].audio = "full"
        /\ dirs[ChannelDir(jobs[j])] = j
        /\ files[FinalFile(jobs[j])].by = j

\* C19: a job that has logged success has returned without an error, a file
\* is at its final path, its tmp directory is gone, and it logged no
\* failure; the success entry is written in a step that finds the file in
\* place and the directory removed.
LoggedSuccess(job) == \E i \in 1..Len(job.logged) : job.logged[i] = "success"

C19_SuccessLoggedLast ==
    /\ [](\A j \in JobIds :
            /\ LoggedSuccess(jobs[j]) =>
                  /\ jobs[j].pc = "done"
                  /\ jobs[j].error = "none"
                  /\ ~LoggedFailure(jobs[j])
                  /\ FinalFile(jobs[j]) \in DOMAIN files
                  /\ tmp[j] = NoWorkspace
            /\ jobs[j].pc = "done" <=> LoggedSuccess(jobs[j])
            /\ Failed(jobs[j]) => ~LoggedSuccess(jobs[j]))
    /\ [][\A j \in JobIds :
            (~LoggedSuccess(jobs[j]) /\ LoggedSuccess(jobs'[j])) =>
                /\ FinalFile(jobs[j]) \in DOMAIN files
                /\ ~tmp[j].exists
                /\ UNCHANGED fsVars]_vars

\* one job has logged success while the other ended on an exception
C19_Witness ==
    \E j, k \in JobIds :
        /\ LoggedSuccess(jobs[j])
        /\ jobs[k].pc = "raised"
        /\ tmp[k].exists

====
